---- MODULE Spec2Model ----
(***************************************************************************)
(* Model of the knowledge-graph extractor web app: the three HTTP          *)
(* handlers of app.py (extract, get_graph, chat), the path-finder          *)
(* extract_path_from_nodes, and Neo4jLoader.upload_graph with its          *)
(* relationship-type sanitizer.  The Neo4j store is modelled as a list of  *)
(* nodes (property maps) and a list of typed directed edges; the two LLM   *)
(* gateways are nondeterministic.                                          *)
(***************************************************************************)
EXTENDS Integers, Sequences, FiniteSets, Bags, TLC

VARIABLES
    current_graph_context,  \* app.py:29  the process-wide context slot
    store,                  \* the Neo4j database contents
    openConns,              \* drivers created and not (yet) closed
    reqs,                   \* in-flight HTTP requests, suspended at an await
    pf,                     \* the frame of extract_path_from_nodes
    last,                   \* the response most recently sent
    rel_in, rel_type,       \* sanitizer: edge.relationship_type and rel_type
    sanitized,              \* whether rel_type has been computed
    graph_data, uploads, store_once   \* upload_graph applied repeatedly

vars == <<current_graph_context, store, openConns, reqs, pf, last,
          rel_in, rel_type, sanitized, graph_data, uploads, store_once>>

(***************************************************************************)
(* Bounds                                                                  *)
(***************************************************************************)
MaxStrLen == 3      \* length of the relationship_type strings enumerated
MaxReqs == 2        \* request slots that may be suspended at once
MaxConns == 2       \* drivers that may be open at once
MaxIds == 2         \* length of the exhaustively enumerated id lists
MaxUploadNodes == 2 \* nodes of the graphs upload_graph is applied to
MaxUploads == 2     \* applications of upload_graph to one graph

(***************************************************************************)
(* Generic helpers                                                         *)
(***************************************************************************)
Min(a, b) == IF a < b THEN a ELSE b

\* Python s[:n]
Take(s, n) == SubSeq(s, 1, Min(n, Len(s)))

SeqsUpTo(S, n) == UNION {[1..k -> S] : k \in 0..n}

Range(s) == {s[k] : k \in DOMAIN s}

RECURSIVE SortedSeq(_)
\* the elements of a finite set of integers in ascending order
SortedSeq(S) ==
    IF S = {} THEN <<>>
    ELSE LET m == CHOOSE x \in S : \A y \in S : x <= y
         IN  <<m>> \o SortedSeq(S \ {m})

Perms(S) == {s \in [1..Cardinality(S) -> S] : Range(s) = S}

\* Python None
None == [none |-> TRUE]

\* node.properties or {}
PropsOrEmpty(properties) == IF properties = None THEN <<>> ELSE properties

(***************************************************************************)
(* Relationship-type sanitizer (database_loader.py:45-49).  A string is a   *)
(* sequence of one-character strings.                                      *)
(***************************************************************************)
AsciiUpper == {"A","B","C","D","E","F","G","H","I","J","K","L","M",
               "N","O","P","Q","R","S","T","U","V","W","X","Y","Z"}
AsciiLower == {"a","b","c","d","e","f","g","h","i","j","k","l","m",
               "n","o","p","q","r","s","t","u","v","w","x","y","z"}
AsciiDigit == {"0","1","2","3","4","5","6","7","8","9"}

\* the class [A-Za-z0-9_] of the first re.sub
WordChars == AsciiUpper \cup AsciiLower \cup AsciiDigit \cup {"_"}

LowerToUpper ==
    [c \in AsciiLower |->
        CASE c = "a" -> "A" [] c = "b" -> "B" [] c = "c" -> "C" [] c = "d" -> "D"
          [] c = "e" -> "E" [] c = "f" -> "F" [] c = "g" -> "G" [] c = "h" -> "H"
          [] c = "i" -> "I" [] c = "j" -> "J" [] c = "k" -> "K" [] c = "l" -> "L"
          [] c = "m" -> "M" [] c = "n" -> "N" [] c = "o" -> "O" [] c = "p" -> "P"
          [] c = "q" -> "Q" [] c = "r" -> "R" [] c = "s" -> "S" [] c = "t" -> "T"
          [] c = "u" -> "U" [] c = "v" -> "V" [] c = "w" -> "W" [] c = "x" -> "X"
          [] c = "y" -> "Y" [] c = "z" -> "Z"]

\* str.upper() on one character: ASCII and accented letters map to one
\* capital, the sharp s expands to two characters, the rest is unchanged
UpperChar(c) ==
    IF c \in AsciiLower THEN <<LowerToUpper[c]>>
    ELSE IF c = "é" THEN <<"É">>
    ELSE IF c = "ß" THEN <<"S", "S">>
    ELSE <<c>>

RECURSIVE upper(_)
upper(s) == IF s = <<>> THEN <<>> ELSE UpperChar(Head(s)) \o upper(Tail(s))

\* re.sub(r'[^A-Za-z0-9_]', '_', s)
ReplaceNonWord(s) == [k \in DOMAIN s |-> IF s[k] \in WordChars THEN s[k] ELSE "_"]

RECURSIVE CollapseUnderscores(_)
\* re.sub(r'_+', '_', s)
CollapseUnderscores(s) ==
    IF Len(s) <= 1 THEN s
    ELSE IF s[1] = "_" /\ s[2] = "_" THEN CollapseUnderscores(Tail(s))
    ELSE <<s[1]>> \o CollapseUnderscores(Tail(s))

RECURSIVE LStrip(_)
LStrip(s) == IF s # <<>> /\ Head(s) = "_" THEN LStrip(Tail(s)) ELSE s

RECURSIVE RStrip(_)
RStrip(s) ==
    IF s # <<>> /\ s[Len(s)] = "_" THEN RStrip(SubSeq(s, 1, Len(s) - 1)) ELSE s

\* str.strip('_')
StripUnderscores(s) == RStrip(LStrip(s))

RELATED_TO == <<"R","E","L","A","T","E","D","_","T","O">>

\* the transform before the default is applied
SanitizeTransform(relationship_type) ==
    StripUnderscores(CollapseUnderscores(ReplaceNonWord(upper(relationship_type))))

SanitizeNoUpper(relationship_type) ==
    LET t == StripUnderscores(CollapseUnderscores(ReplaceNonWord(relationship_type)))
    IN  IF t = <<>> THEN RELATED_TO ELSE t

\* database_loader.py:45-49, the rel_type embedded in the MERGE query
SanitizeRelType(relationship_type) ==
    LET t == SanitizeTransform(relationship_type)
    IN  IF t = <<>> THEN RELATED_TO ELSE t

(***************************************************************************)
(* The store.  nodes[i] is the property map of the i-th :Entity node, and   *)
(* an edge names its end nodes by their index.                             *)
(***************************************************************************)
EmptyStore == [nodes |-> <<>>, edges |-> <<>>]

NodesWithId(st, id) ==
    {i \in DOMAIN st.nodes : "id" \in DOMAIN st.nodes[i] /\ st.nodes[i]["id"] = id}

\* database_loader.py:31-38: MERGE (n:Entity {id}) SET n.label SET n += props
MergeNode(st, node) ==
    LET withNode == IF NodesWithId(st, node.id) = {}
                    THEN Append(st.nodes, ("id" :> node.id))
                    ELSE st.nodes
        matched == {i \in DOMAIN withNode :
                      "id" \in DOMAIN withNode[i] /\ withNode[i]["id"] = node.id}
    IN  [st EXCEPT !.nodes =
            [i \in DOMAIN withNode |->
                IF i \in matched
                THEN PropsOrEmpty(node.properties) @@ ("label" :> node.label)
                        @@ withNode[i]
                ELSE withNode[i]]]

RECURSIVE MergeEdgePairs(_, _, _)
\* MERGE (source)-[:rel_type]->(target) for each matched row, in row order
MergeEdgePairs(edges, rows, type) ==
    IF rows = <<>> THEN edges
    ELSE LET e == [src |-> Head(rows)[1], type |-> type, tgt |-> Head(rows)[2]]
         IN  MergeEdgePairs(IF e \in Range(edges) THEN edges ELSE Append(edges, e),
                            Tail(rows), type)

RECURSIVE Rows(_, _)
\* the rows of MATCH (source) MATCH (target): every source with every target
Rows(srcs, tgts) ==
    IF srcs = <<>> THEN <<>>
    ELSE [k \in DOMAIN tgts |-> <<Head(srcs), tgts[k]>>] \o Rows(Tail(srcs), tgts)

\* database_loader.py:43-59
MergeEdge(st, edge) ==
    LET rows == Rows(SortedSeq(NodesWithId(st, edge.source_id)),
                     SortedSeq(NodesWithId(st, edge.target_id)))
    IN  [st EXCEPT !.edges =
            MergeEdgePairs(@, rows, SanitizeRelType(edge.relationship_type))]

\* the number of statements upload_graph runs for g
Statements(g) == Len(g.nodes) + Len(g.edges)

RECURSIVE UploadPrefix(_, _, _)
\* the store after the first k statements of upload_graph(g): each
\* session.run is its own transaction, so a failure keeps what ran before it
UploadPrefix(st, g, k) ==
    IF k = 0 THEN st
    ELSE LET before == UploadPrefix(st, g, k - 1)
         IN  IF k <= Len(g.nodes)
             THEN MergeNode(before, g.nodes[k])
             ELSE MergeEdge(before, g.edges[k - Len(g.nodes)])

\* database_loader.py:19-61
upload_graph(st, g) == UploadPrefix(st, g, Statements(g))

(***************************************************************************)
(* Read queries of the store                                               *)
(***************************************************************************)
MaxHopsTier1 == 3   \* app.py:267  [*..3]
MaxHopsTier2 == 2   \* app.py:291  [r*..2]
FallbackLimit == 5  \* app.py:254, 308  valid_node_ids[:5]
Tier2Limit == 10    \* app.py:294  all_nodes[0..10]

\* the node at the other end of edge e, seen from node u
OtherEnd(e, u) == IF e.src = u THEN e.tgt ELSE e.src

\* the paths that extend a path of P by one relationship, in either
\* direction; a pattern never uses one relationship twice
ExtendPaths(st, P) ==
    {[ns |-> Append(p.ns, OtherEnd(st.edges[k], p.ns[Len(p.ns)])),
      es |-> Append(p.es, k)] :
        <<p, k>> \in {<<q, h>> \in P \X DOMAIN st.edges :
                        /\ h \notin Range(q.es)
                        /\ q.ns[Len(q.ns)] \in {st.edges[h].src, st.edges[h].tgt}}}

RECURSIVE PathsUpTo(_, _, _)
\* the undirected paths from node s of at most hops relationships
PathsUpTo(st, s, hops) ==
    IF hops = 0 THEN {[ns |-> <<s>>, es |-> <<>>]}
    ELSE LET shorter == PathsUpTo(st, s, hops - 1)
         IN  shorter \cup ExtendPaths(st, shorter)

PathsBetween(st, s, t, hops) ==
    {p \in PathsUpTo(st, s, hops) : Len(p.es) >= 1 /\ p.ns[Len(p.ns)] = t}

\* the shortest paths between two distinct nodes within the hop bound
ShortestPaths(st, s, t, hops) ==
    LET all == PathsBetween(st, s, t, hops)
    IN  {p \in all : \A q \in all : Len(p.es) <= Len(q.es)}

\* the record of a path: [node.id], [type(rel)]
PathRecord(st, p) ==
    [nodes |-> [k \in DOMAIN p.ns |-> st.nodes[p.ns[k]]["id"]],
     relationships |-> [k \in DOMAIN p.es |-> st.edges[p.es[k]].type]]

\* the same query with the pattern written -[*..3]->, following each
\* relationship from its source to its target only
ShortestPathRecordsDirected(st, start_id, end_id, hops) ==
    LET Directed(p) == \A k \in DOMAIN p.es :
                          /\ st.edges[p.es[k]].src = p.ns[k]
                          /\ st.edges[p.es[k]].tgt = p.ns[k + 1]
        Shortest(s, t) ==
            LET all == {p \in PathsBetween(st, s, t, hops) : Directed(p)}
            IN  {p \in all : \A q \in all : Len(p.es) <= Len(q.es)}
    IN  {PathRecord(st, p) :
            p \in UNION {Shortest(s, t) :
                            <<s, t>> \in {<<u, v>> \in NodesWithId(st, start_id)
                                                     \X NodesWithId(st, end_id) : u # v}}}

\* app.py:265-274: the records the shortestPath query may return under
\* LIMIT 1 (one row per pair of matched end nodes; a row whose two ends are
\* the same node yields no path).  The empty set means result.single() is None.
ShortestPathRecords(st, start_id, end_id, hops) ==
    {PathRecord(st, p) :
        p \in UNION {ShortestPaths(st, s, t, hops) :
                        <<s, t>> \in {<<u, v>> \in NodesWithId(st, start_id)
                                                 \X NodesWithId(st, end_id) : u # v}}}

\* app.py:290-295: the ids collect(DISTINCT connected.id) gathers
ConnectedIds(st, start_id, node_ids, hops) ==
    {st.nodes[p.ns[Len(p.ns)]]["id"] :
        p \in {q \in UNION {PathsUpTo(st, s, hops) : s \in NodesWithId(st, start_id)} :
                 /\ Len(q.es) >= 1
                 /\ st.nodes[q.ns[Len(q.ns)]]["id"] \in Range(node_ids)}}

\* the rows the Tier-2 query may return: the collected ids in any order the
\* store produces, then start_id, cut to the first Tier2Limit
NeighborRecords(st, start_id, node_ids, hops) ==
    {Take(c \o <<start_id>>, Tier2Limit) :
        c \in Perms(ConnectedIds(st, start_id, node_ids, hops))}

\* app.py:147-171: what get_graph reads back
FetchGraph(st) ==
    [nodes |-> [i \in DOMAIN st.nodes |->
                  [id |-> st.nodes[i]["id"],
                   label |-> st.nodes[i]["label"],
                   properties |-> [k \in DOMAIN st.nodes[i] \ {"id", "label"} |->
                                      st.nodes[i][k]]]],
     edges |-> [k \in DOMAIN st.edges |->
                  [source_id |-> st.nodes[st.edges[k].src]["id"],
                   target_id |-> st.nodes[st.edges[k].tgt]["id"],
                   relationship_type |-> st.edges[k].type]]]

(***************************************************************************)
(* Values of the gateways                                                  *)
(***************************************************************************)
Node(id, properties) == [id |-> id, label |-> "L", properties |-> properties]
Edge(s, t, ty) == [source_id |-> s, target_id |-> t, relationship_type |-> ty]

\* a chain a -> b -> m -> c
G1 == [nodes |-> <<Node("a", ("k" :> "v")), Node("b", None), Node("m", None),
                   Node("c", None)>>,
       edges |-> <<Edge("a", "b", <<"k", "n", "o", "w", "s">>),
                   Edge("b", "m", <<"w", " ", "a", "t">>),
                   Edge("m", "c", <<"-">>)>>]

\* a and d linked both ways, c -> d, and e on its own
G2 == [nodes |-> <<Node("a", ("k" :> "w")), Node("c", None), Node("d", None),
                   Node("e", None)>>,
       edges |-> <<Edge("a", "d", <<"t">>), Edge("d", "a", <<"u">>),
                   Edge("c", "d", <<"t">>)>>]

\* a single node, and a pair with one edge
GA == [nodes |-> <<Node("a", None)>>, edges |-> <<>>]
GB == [nodes |-> <<Node("a", None), Node("b", ("k" :> "v"))>>,
       edges |-> <<Edge("a", "b", <<"o", "f">>)>>]

\* what b.ExtractGraph may return
Graphs == {GA, GB}

\* what chat_response.relevant_node_ids may be in a chat request
ChatIdLists == {<<>>, <<"a">>, <<"x", "b">>, <<"a", "b">>, <<"a", "a">>}

\* the ids the chat gateway names: a and c are in both graphs, e in one, x in none
IdAlphabet == {"a", "c", "e", "x"}

LongLists == {<<"a", "m", "b", "c">>, <<"a", "c", "a">>, <<"e", "a", "c">>,
              <<"x", "a", "b", "c", "m", "a", "x", "b">>}

\* the id lists the path-finder is run on
RelevantIdLists == SeqsUpTo(IdAlphabet, MaxIds) \cup LongLists

\* app.py:103-120
GraphResponse(g) ==
    [nodes |-> [k \in DOMAIN g.nodes |->
                  [id |-> g.nodes[k].id, label |-> g.nodes[k].label,
                   properties |-> PropsOrEmpty(g.nodes[k].properties)]],
     edges |-> [k \in DOMAIN g.edges |->
                  [source_id |-> g.edges[k].source_id,
                   target_id |-> g.edges[k].target_id,
                   relationship_type |-> g.edges[k].relationship_type]]]

(***************************************************************************)
(* The path-finder, app.py:235-308                                         *)
(***************************************************************************)
PfIdle ==
    [pc |-> "idle", caller |-> None, node_ids |-> <<>>, graph_context |-> None,
     valid_node_ids |-> <<>>, i |-> 0, j |-> 0, paths_found |-> <<>>,
     result |-> None, exit |-> "", ops |-> 0, raised |-> FALSE]

\* the frame at the call extract_path_from_nodes(node_ids, graph_context)
PfCall(caller, node_ids, graph_context) ==
    [PfIdle EXCEPT !.pc = "validate", !.caller = caller, !.node_ids = node_ids,
                   !.graph_context = graph_context]

ValidNodeIdsUnfiltered(node_ids, graph_context) == node_ids

\* app.py:241
ValidNodeIds(node_ids, graph_context) ==
    SelectSeq(node_ids,
              LAMBDA nid : \E k \in DOMAIN graph_context.nodes :
                              graph_context.nodes[k].id = nid)

\* app.py:254, 308
Fallback(valid_node_ids) == [nodes |-> Take(valid_node_ids, FallbackLimit)]

RECURSIVE SortByNodesDesc(_)
\* app.py:284: list.sort(key=len(nodes), reverse=True) is stable
SortByNodesDesc(paths) ==
    IF paths = <<>> THEN <<>>
    ELSE LET rest == SortByNodesDesc(SubSeq(paths, 1, Len(paths) - 1))
             p == paths[Len(paths)]
             \* p goes behind everything at least as long as it
             before == SelectSeq(rest, LAMBDA q : Len(q.nodes) >= Len(p.nodes))
             after == SelectSeq(rest, LAMBDA q : Len(q.nodes) < Len(p.nodes))
         IN  before \o <<p>> \o after

SelectPathNoReverse(paths_found) ==
    SortByNodesDesc(paths_found)[Len(paths_found)]

\* app.py:282-286
SelectPath(paths_found) == SortByNodesDesc(paths_found)[1]

Return(result, exit) ==
    [pf EXCEPT !.pc = "done", !.result = result, !.exit = exit]

\* app.py:237-248
PFValidate ==
    /\ pf.pc = "validate"
    /\ pf' = IF \/ pf.graph_context = None
                \/ pf.graph_context.nodes = <<>>
                \/ pf.node_ids = <<>>
             THEN Return(None, "no_args")
             ELSE LET valid == ValidNodeIds(pf.node_ids, pf.graph_context)
                  IN  IF valid = <<>> THEN Return(None, "no_valid")
                      ELSE IF Len(valid) = 1
                      THEN [Return([nodes |-> valid], "single")
                               EXCEPT !.valid_node_ids = valid]
                      ELSE [pf EXCEPT !.pc = "connect", !.valid_node_ids = valid]
    /\ UNCHANGED <<current_graph_context, store, openConns, reqs, last>>

ExceptKeepsPaths(frame) ==
    [frame EXCEPT !.pc = "done",
                  !.result = IF frame.paths_found # <<>> THEN frame.paths_found[1]
                             ELSE [nodes |-> Take(frame.valid_node_ids, FallbackLimit)],
                  !.exit = "except", !.raised = TRUE]

\* app.py:304-308: the except clause, which does not close the loader
Except(frame) ==
    [frame EXCEPT !.pc = "done", !.result = Fallback(frame.valid_node_ids),
                  !.exit = "except", !.raised = TRUE]

\* app.py:251: GraphDatabase.driver raises, no driver exists afterwards
PFDriverRaises ==
    /\ pf.pc = "connect"
    /\ pf' = Except([pf EXCEPT !.ops = @ + 1])
    /\ UNCHANGED <<current_graph_context, store, openConns, reqs, last>>

\* app.py:251-254: the probe fails, the loader is closed
PFUnreachable ==
    /\ pf.pc = "connect"
    /\ pf' = [pf EXCEPT !.pc = "done", !.result = Fallback(pf.valid_node_ids),
                        !.exit = "unreachable", !.ops = @ + 2]
    /\ UNCHANGED <<current_graph_context, store, openConns, reqs, last>>

\* app.py:251-257: the probe succeeds, the driver stays open
PFConnect ==
    /\ pf.pc = "connect"
    /\ pf' = [pf EXCEPT !.pc = "tier1", !.ops = @ + 2, !.i = 1, !.j = 2]
    /\ openConns' = openConns + 1
    /\ UNCHANGED <<current_graph_context, store, reqs, last>>

\* app.py:263-264: the next pair of the two nested loops
NextPair(frame) ==
    IF frame.j < Len(frame.valid_node_ids)
    THEN [frame EXCEPT !.j = @ + 1]
    ELSE IF frame.i + 1 < Len(frame.valid_node_ids)
    THEN [frame EXCEPT !.i = @ + 1, !.j = frame.i + 2]
    ELSE [frame EXCEPT !.pc = "select"]

\* app.py:265-272: the pair query raises
PFPairQueryRaises ==
    /\ pf.pc = "tier1"
    /\ pf' = Except([pf EXCEPT !.ops = @ + 1])
    /\ UNCHANGED <<current_graph_context, store, openConns, reqs, last>>

\* app.py:265-279: the pair query returns a record or none
PFPairQuery ==
    /\ pf.pc = "tier1"
    /\ LET records == ShortestPathRecords(store, pf.valid_node_ids[pf.i],
                                          pf.valid_node_ids[pf.j], MaxHopsTier1)
       IN  \E record \in IF records = {} THEN {None} ELSE records :
              pf' = NextPair([pf EXCEPT
                        !.ops = @ + 1,
                        !.paths_found = IF record # None /\ record.nodes # <<>>
                                        THEN Append(@, record) ELSE @])
    /\ UNCHANGED <<current_graph_context, store, openConns, reqs, last>>

\* app.py:282-286: Tier 1 found a path, the loader is closed
PFSelect ==
    /\ pf.pc = "select"
    /\ pf.paths_found # <<>>
    /\ pf' = Return(SelectPath(pf.paths_found), "tier1")
    /\ openConns' = openConns - 1
    /\ UNCHANGED <<current_graph_context, store, reqs, last>>

\* app.py:289-295: the Tier-2 query raises
PFNeighborQueryRaises ==
    /\ pf.pc = "select"
    /\ pf.paths_found = <<>>
    /\ Len(pf.valid_node_ids) >= 2
    /\ pf' = Except([pf EXCEPT !.ops = @ + 1])
    /\ UNCHANGED <<current_graph_context, store, openConns, reqs, last>>

\* app.py:289-308: the Tier-2 query returns, the loader is closed
PFNeighborQuery ==
    /\ pf.pc = "select"
    /\ pf.paths_found = <<>>
    /\ Len(pf.valid_node_ids) >= 2
    /\ \E node_ids \in NeighborRecords(store, pf.valid_node_ids[1],
                                       Tail(pf.valid_node_ids), MaxHopsTier2) :
          pf' = IF node_ids # <<>>
                THEN [Return([nodes |-> node_ids], "tier2") EXCEPT !.ops = @ + 1]
                ELSE [Return(Fallback(pf.valid_node_ids), "fallback")
                         EXCEPT !.ops = @ + 1]
    /\ openConns' = openConns - 1
    /\ UNCHANGED <<current_graph_context, store, reqs, last>>

PathFinder ==
    \/ PFValidate
    \/ PFDriverRaises
    \/ PFUnreachable
    \/ PFConnect
    \/ PFPairQueryRaises
    \/ PFPairQuery
    \/ PFSelect
    \/ PFNeighborQueryRaises
    \/ PFNeighborQuery

(***************************************************************************)
(* The HTTP handlers.  A handler runs without interruption between two      *)
(* awaits; reqs holds the requests suspended at a gateway call.            *)
(***************************************************************************)
Response(op, status, body) ==
    [op |-> op, status |-> status, body |-> body, gateway |-> None,
     store_outcome |-> ""]

NoResponse == Response("", 0, None)

ExtractReq == [kind |-> "extract"]
ChatReq(summary_of) == [kind |-> "chat", summary_of |-> summary_of]

Suspended(req) == BagIn(req, reqs)
Suspend(req) == reqs (+) SetToBag({req})
Resume(req) == reqs (-) SetToBag({req})

\* app.py:52-90: the API key is missing (500) or the request carries no
\* usable text (400)
ExtractRejected ==
    /\ pf.pc = "idle"
    /\ \E status \in {400, 500} : last' = Response("extract", status, None)
    /\ UNCHANGED <<current_graph_context, store, openConns, reqs, pf>>

\* app.py:52-97: up to the await of b.ExtractGraph
ExtractStart ==
    /\ pf.pc = "idle"
    /\ BagCardinality(reqs) < MaxReqs
    /\ reqs' = Suspend(ExtractReq)
    /\ UNCHANGED <<current_graph_context, store, openConns, pf, last>>

\* app.py:98-99
ExtractGatewayFails ==
    /\ pf.pc = "idle"
    /\ Suspended(ExtractReq)
    /\ reqs' = Resume(ExtractReq)
    /\ last' = Response("extract", 500, None)
    /\ UNCHANGED <<current_graph_context, store, openConns, pf>>

\* app.py:101-133 with the store not answering the probe
ExtractStoreUnreachable(g) ==
    /\ pf.pc = "idle"
    /\ Suspended(ExtractReq)
    /\ openConns < MaxConns
    /\ reqs' = Resume(ExtractReq)
    /\ current_graph_context' = GraphResponse(g)
    /\ last' = [Response("extract", 200, GraphResponse(g))
                   EXCEPT !.gateway = g, !.store_outcome = "unreachable"]
    /\ UNCHANGED <<store, openConns, pf>>

ExtractUploadRaisesFatal(g, k) ==
    /\ pf.pc = "idle"
    /\ Suspended(ExtractReq)
    /\ openConns < MaxConns
    /\ reqs' = Resume(ExtractReq)
    /\ current_graph_context' = GraphResponse(g)
    /\ store' = UploadPrefix(store, g, k)
    /\ openConns' = openConns + 1
    /\ last' = Response("extract", 500, None)
    /\ UNCHANGED pf

\* app.py:101-133 with statement k + 1 of upload_graph raising: the except
\* clause is entered before loader.close()
ExtractUploadRaises(g, k) ==
    /\ pf.pc = "idle"
    /\ Suspended(ExtractReq)
    /\ openConns < MaxConns
    /\ reqs' = Resume(ExtractReq)
    /\ current_graph_context' = GraphResponse(g)
    /\ store' = UploadPrefix(store, g, k)
    /\ openConns' = openConns + 1
    /\ last' = [Response("extract", 200, GraphResponse(g))
                   EXCEPT !.gateway = g, !.store_outcome = "raised"]
    /\ UNCHANGED pf

\* app.py:101-133 with the upload succeeding
ExtractUploaded(g) ==
    /\ pf.pc = "idle"
    /\ Suspended(ExtractReq)
    /\ openConns < MaxConns
    /\ reqs' = Resume(ExtractReq)
    /\ current_graph_context' = GraphResponse(g)
    /\ store' = upload_graph(store, g)
    /\ last' = [Response("extract", 200, GraphResponse(g))
                   EXCEPT !.gateway = g, !.store_outcome = "uploaded"]
    /\ UNCHANGED <<openConns, pf>>

\* app.py:139-142, 182-183: the probe fails, HTTPException(503) is raised
\* inside the try and re-raised as 500; the loader is not closed
GetGraphUnreachable ==
    /\ pf.pc = "idle"
    /\ openConns < MaxConns
    /\ openConns' = openConns + 1
    /\ last' = Response("get_graph", 500, None)
    /\ UNCHANGED <<current_graph_context, store, reqs, pf>>

\* app.py:144-171, 182-183: a read query raises; the loader is not closed
GetGraphQueryRaises ==
    /\ pf.pc = "idle"
    /\ openConns < MaxConns
    /\ openConns' = openConns + 1
    /\ last' = Response("get_graph", 500, None)
    /\ UNCHANGED <<current_graph_context, store, reqs, pf>>

\* app.py:139-181
GetGraph ==
    /\ pf.pc = "idle"
    /\ openConns < MaxConns
    /\ current_graph_context' = FetchGraph(store)
    /\ last' = Response("get_graph", 200, FetchGraph(store))
    /\ UNCHANGED <<store, openConns, reqs, pf>>

\* app.py:198-199: `not current_graph_context`
ChatNoGraph ==
    /\ pf.pc = "idle"
    /\ current_graph_context = None
    /\ last' = Response("chat", 400, None)
    /\ UNCHANGED <<current_graph_context, store, openConns, reqs, pf>>

\* app.py:197-215: the summary is built from the global, then the handler
\* awaits b.ChatWithGraph
ChatStart ==
    /\ pf.pc = "idle"
    /\ current_graph_context # None
    /\ BagCardinality(reqs) < MaxReqs
    /\ reqs' = Suspend(ChatReq(current_graph_context))
    /\ UNCHANGED <<current_graph_context, store, openConns, pf, last>>

\* app.py:231-232
ChatGatewayFails(req) ==
    /\ pf.pc = "idle"
    /\ Suspended(req) /\ req.kind = "chat"
    /\ reqs' = Resume(req)
    /\ last' = Response("chat", 500, None)
    /\ UNCHANGED <<current_graph_context, store, openConns, pf>>

\* app.py:218: the second argument of the call
PathContext(req) == current_graph_context

\* app.py:215-218: the gateway answers and the path-finder is called
ChatGatewayReturns(req, relevant_node_ids) ==
    /\ pf.pc = "idle"
    /\ Suspended(req) /\ req.kind = "chat"
    /\ openConns < MaxConns
    /\ reqs' = Resume(req)
    /\ pf' = PfCall(req, relevant_node_ids, PathContext(req))
    /\ UNCHANGED <<current_graph_context, store, openConns, last>>

\* app.py:220-230
ChatRespond ==
    /\ pf.pc = "done"
    /\ last' = Response("chat", 200, [path |-> pf.result])
    /\ pf' = PfIdle
    /\ UNCHANGED <<current_graph_context, store, openConns, reqs>>

Handlers ==
    \/ ExtractRejected
    \/ ExtractStart
    \/ ExtractGatewayFails
    \/ \E g \in Graphs : ExtractStoreUnreachable(g)
    \/ \E g \in Graphs : \E k \in 0..(Statements(g) - 1) : ExtractUploadRaises(g, k)
    \/ \E g \in Graphs : ExtractUploaded(g)
    \/ GetGraphUnreachable
    \/ GetGraphQueryRaises
    \/ GetGraph
    \/ ChatNoGraph
    \/ ChatStart
    \/ \E req \in BagToSet(reqs) : ChatGatewayFails(req)
    \/ \E req \in BagToSet(reqs) : \E ids \in ChatIdLists :
          ChatGatewayReturns(req, ids)
    \/ ChatRespond

Harness == <<rel_in, rel_type, sanitized, graph_data, uploads, store_once>>

Init ==
    /\ current_graph_context = None
    /\ store = EmptyStore
    /\ openConns = 0
    /\ reqs = EmptyBag
    /\ pf = PfIdle
    /\ last = NoResponse
    /\ rel_in = <<>> /\ rel_type = <<>> /\ sanitized = FALSE
    /\ graph_data = None /\ uploads = 0 /\ store_once = None

Next == (Handlers \/ PathFinder) /\ UNCHANGED Harness

Spec == Init /\ [][Next]_vars

(***************************************************************************)
(* The path-finder on its own: one call on a store and a context that the   *)
(* handlers can produce, with the ids the chat gateway may name.            *)
(***************************************************************************)
S1 == upload_graph(EmptyStore, G1)
S2 == upload_graph(EmptyStore, G2)

\* stores after extractions of G1 and G2, whole or cut short by a failure
PathFinderStores ==
    {EmptyStore, S1, S2, upload_graph(S1, G2), upload_graph(S2, G1),
     UploadPrefix(S1, G2, 5), UploadPrefix(EmptyStore, G1, 4)}

\* contexts left by extract (app.py:121) and by get_graph (app.py:179)
PathFinderContexts ==
    {GraphResponse(G1), GraphResponse(G2)}
        \cup {FetchGraph(st) : st \in {EmptyStore, upload_graph(S1, G2)}}

InitPF ==
    /\ current_graph_context \in PathFinderContexts
    /\ store \in PathFinderStores
    /\ openConns = 0
    /\ reqs = EmptyBag
    /\ \E ids \in RelevantIdLists :
          pf = PfCall(None, ids, current_graph_context)
    /\ last = NoResponse
    /\ rel_in = <<>> /\ rel_type = <<>> /\ sanitized = FALSE
    /\ graph_data = None /\ uploads = 0 /\ store_once = None

NextPF == PathFinder /\ UNCHANGED Harness

SpecPF == InitPF /\ [][NextPF]_vars

(***************************************************************************)
(* The sanitizer on its own: one relationship_type string, sanitized.      *)
(***************************************************************************)
\* letters of both cases, a digit, the underscore, punctuation, a space and
\* two non-ASCII letters
Chars == {"a", "Z", "7", "_", "-", " ", "é", "ß"}

InitSan ==
    /\ rel_in \in SeqsUpTo(Chars, MaxStrLen)
    /\ rel_type = <<>>
    /\ sanitized = FALSE
    /\ current_graph_context = None /\ store = EmptyStore /\ openConns = 0
    /\ reqs = EmptyBag /\ pf = PfIdle /\ last = NoResponse
    /\ graph_data = None /\ uploads = 0 /\ store_once = None

\* database_loader.py:45-49
Sanitize ==
    /\ ~sanitized
    /\ rel_type' = SanitizeRelType(rel_in)
    /\ sanitized' = TRUE
    /\ UNCHANGED <<current_graph_context, store, openConns, reqs, pf, last,
                   rel_in, graph_data, uploads, store_once>>

NextSan == Sanitize

SpecSan == InitSan /\ [][NextSan]_vars

(***************************************************************************)
(* upload_graph on its own: one graph applied repeatedly to a prior store.  *)
(***************************************************************************)
UploadNodes ==
    {Node(id, properties) :
        id \in {"a", "b"},
        properties \in {None, ("k" :> "v"), ("k" :> "w"), ("id" :> "b")}}

UploadEdges == {Edge("a", "b", <<"r">>), Edge("b", "a", <<"r", " ">>)}

UploadGraphs ==
    {[nodes |-> ns, edges |-> es] :
        ns \in SeqsUpTo(UploadNodes, MaxUploadNodes), es \in SeqsUpTo(UploadEdges, 1)}

InitUpload ==
    /\ graph_data \in UploadGraphs
    /\ store \in {EmptyStore, upload_graph(EmptyStore, GB)}
    /\ uploads = 0
    /\ store_once = None
    /\ current_graph_context = None /\ openConns = 0
    /\ reqs = EmptyBag /\ pf = PfIdle /\ last = NoResponse
    /\ rel_in = <<>> /\ rel_type = <<>> /\ sanitized = FALSE

\* database_loader.py:19-61
Upload ==
    /\ uploads < MaxUploads
    /\ store' = upload_graph(store, graph_data)
    /\ uploads' = uploads + 1
    /\ store_once' = IF uploads = 0 THEN store' ELSE store_once
    /\ UNCHANGED <<current_graph_context, openConns, reqs, pf, last,
                   rel_in, rel_type, sanitized, graph_data>>

NextUpload == Upload

SpecUpload == InitUpload /\ [][NextUpload]_vars

(***************************************************************************)
(* Properties                                                              *)
(***************************************************************************)
\* the ids of the call's node_ids that the call's context knows, in order
KnownIds ==
    SelectSeq(pf.node_ids,
              LAMBDA nid : /\ pf.graph_context # None
                           /\ nid \in {pf.graph_context.nodes[k].id :
                                         k \in DOMAIN pf.graph_context.nodes})

FirstFive(ids) == SubSeq(ids, 1, IF Len(ids) < 5 THEN Len(ids) ELSE 5)

\* the pairs i < j of positions of the known ids
Pairs == {<<i, j>> \in (DOMAIN KnownIds) \X (DOMAIN KnownIds) : i < j}

\* the answers the store can give for a pair within three hops
PairRecords(pair) ==
    ShortestPathRecords(store, KnownIds[pair[1]], KnownIds[pair[2]], 3)

StoreAnswered == pf.pc = "done" /\ ~pf.raised /\ pf.exit # "unreachable"

\* C1: the context handed to the path-finder is the context the summary
\* of the same chat request was built from.
C1_SingleSnapshot ==
    pf.pc # "idle" => pf.graph_context = pf.caller.summary_of

\* C2: with at least two valid ids, a failed probe or a raising query makes
\* the path-finder return the first five valid ids and nothing else.
C2_StoreFailureDegrades ==
    (/\ pf.pc = "done"
     /\ Len(KnownIds) >= 2
     /\ (pf.exit = "unreachable" \/ pf.raised))
        => pf.result = [nodes |-> FirstFive(KnownIds)]

C2_Witness ==
    /\ pf.pc = "done"
    /\ pf.raised
    /\ pf.paths_found # <<>>
    /\ Len(KnownIds) > 5

\* C3: when one id is valid, however often it is named, the result is that
\* id alone and the store is never touched.
C3_SingleIdNoStore ==
    (pf.pc = "done" /\ Cardinality(Range(KnownIds)) = 1)
        => /\ pf.result = [nodes |-> <<KnownIds[1]>>]
           /\ pf.ops = 0

\* C4: when some pair has a path and the store answers every query, every
\* pair was queried, and the result is the first found among the longest of
\* the paths the pair queries returned.
C4_Tier1Longest ==
    (/\ StoreAnswered
     /\ \E pair \in Pairs : PairRecords(pair) # {})
        => /\ pf.ops = 2 + Cardinality(Pairs)
           /\ Len(pf.paths_found) =
                 Cardinality({pair \in Pairs : PairRecords(pair) # {}})
           /\ pf.result \in UNION {PairRecords(pair) : pair \in Pairs}
           /\ \E k \in DOMAIN pf.paths_found :
                 /\ pf.result = pf.paths_found[k]
                 /\ \A l \in DOMAIN pf.paths_found :
                       /\ Len(pf.paths_found[l].nodes) <= Len(pf.result.nodes)
                       /\ l < k => Len(pf.paths_found[l].nodes) < Len(pf.result.nodes)

C4_Witness ==
    /\ StoreAnswered
    /\ pf.exit = "tier1"
    /\ \E k, l \in DOMAIN pf.paths_found :
          /\ k < l
          /\ Len(pf.paths_found[k].nodes) = Len(pf.paths_found[l].nodes)
          /\ pf.paths_found[k] # pf.paths_found[l]
          /\ pf.result = pf.paths_found[k]
    /\ \E k \in DOMAIN pf.paths_found :
          Len(pf.paths_found[k].nodes) < Len(pf.result.nodes)

\* C5: a second and any later application of upload_graph to the same graph
\* leaves the store as the first application left it.
C5_UpsertIdempotent ==
    uploads >= 2 => store = store_once

\* C6: once an operation has returned, no driver it created is open.
C6_ConnectionsClosed ==
    pf.pc \in {"idle", "done"} => openConns = 0

\* an extract request leaves its await
ExtractEnds == CopiesIn(ExtractReq, reqs') < CopiesIn(ExtractReq, reqs)

\* C7: an extract whose gateway call succeeded answers with the extracted
\* graph and leaves it in the context, whatever the store did; one whose
\* gateway call failed answers with an error and leaves the context alone.
C7_PersistenceBestEffort ==
    [][ExtractEnds =>
          /\ last'.op = "extract"
          /\ \/ /\ last'.gateway \in Graphs
                /\ last'.status = 200
                /\ last'.body = GraphResponse(last'.gateway)
                /\ current_graph_context' = last'.body
             \/ /\ last'.gateway = None
                /\ last'.status = 500
                /\ current_graph_context' = current_graph_context]_vars

C7_Witness ==
    /\ last.op = "extract"
    /\ last.status = 200
    /\ last.store_outcome = "raised"
    /\ store # EmptyStore
    /\ current_graph_context = GraphResponse(GB)

\* C8: the result is null exactly when the context knows none of the ids,
\* and then the store was never touched.
C8_NullIffNoValidId ==
    pf.pc = "done" =>
        /\ (pf.result = None) <=> (KnownIds = <<>>)
        /\ pf.result = None => (pf.ops = 0 /\ openConns = 0)

C8_Witness ==
    /\ pf.pc = "done"
    /\ pf.result = None
    /\ pf.node_ids # <<>>
    /\ pf.graph_context.nodes # <<>>

\* C9: the sanitized relationship type is a non-empty word over A-Z, 0-9
\* and underscore with no leading, trailing or doubled underscore, and is
\* RELATED_TO when the upper-cased input has no ASCII letter or digit.
C9_SanitizedIdentifier ==
    sanitized =>
        /\ rel_type # <<>>
        /\ \A k \in DOMAIN rel_type :
              rel_type[k] \in AsciiUpper \cup AsciiDigit \cup {"_"}
        /\ rel_type[1] # "_"
        /\ rel_type[Len(rel_type)] # "_"
        /\ \A k \in 1..(Len(rel_type) - 1) :
              ~(rel_type[k] = "_" /\ rel_type[k + 1] = "_")
        /\ (\A k \in DOMAIN upper(rel_in) :
               upper(rel_in)[k] \notin AsciiUpper \cup AsciiLower \cup AsciiDigit)
              => rel_type = RELATED_TO

C9_Witness ==
    /\ sanitized
    /\ rel_type = <<"A", "_", "S", "S">>
    /\ Len(rel_in) = 3

\* C10: when the store answers, no pair of valid ids has a path within three
\* hops and no other valid id is within two hops of the first, the result
\* is the first five valid ids.
C10_Tier3Fallback ==
    (/\ StoreAnswered
     /\ Len(KnownIds) >= 2
     /\ \A pair \in Pairs : PairRecords(pair) = {}
     /\ ConnectedIds(store, KnownIds[1], Tail(KnownIds), 2) = {})
        => pf.result = [nodes |-> FirstFive(KnownIds)]

\* C11: when the store answers every query and the result comes from Tier 2,
\* every id of the result is the anchor, the first valid id: any other valid
\* id within two hops of the anchor would have given Tier 1 a path.
C11_Tier2OnlyAnchor ==
    (pf.pc = "done" /\ ~pf.raised /\ pf.exit = "tier2")
        => /\ DOMAIN pf.result = {"nodes"}
           /\ pf.result.nodes # <<>>
           /\ \A k \in DOMAIN pf.result.nodes : pf.result.nodes[k] = KnownIds[1]

\* Tier 2 collected an id: the anchor, named twice and lying on a cycle
C11_Witness ==
    /\ pf.pc = "done"
    /\ ~pf.raised
    /\ pf.exit = "tier2"
    /\ Len(pf.result.nodes) >= 2
    /\ store.edges # <<>>

====
